---- MODULE Spec2Model ----
(***************************************************************************)
(* saucepan: the Source / Sources registry of src/source.rs and the Span   *)
(* of src/span.rs.  A text is a sequence of bytes (the UTF-8 encoding of a *)
(* sequence of characters); a str slice is a (buffer, pointer, length)     *)
(* triple, as a Rust &str is.                                              *)
(***************************************************************************)
EXTENDS Integers, Sequences, FiniteSets, TLC

VARIABLES
  sources,   \* Sources.sources : Vec<Source>
  result,    \* the outcome of the last operation performed
  spans,     \* the spans the client holds, the operands of the span operations
  range      \* the range a..b the client is about to slice with

vars == <<sources, result, spans, range>>

----------------------------------------------------------------------------
(* Bounds of the model *)

\* longest text, in characters
MaxChars == 3
\* how far past text.len() / past the last line the queries reach
MaxBeyond == 2
\* longest text of the one source whose spans are combined, in characters
MaxSpanChars == 3
\* longest text of each of two sources whose spans are combined, in characters
MaxOtherChars == 1
\* longest text of the source whose spans are sliced, in characters
MaxSliceChars == 2
\* the most sources a registry is given
MaxSources == 2

----------------------------------------------------------------------------
(* Bytes, characters and texts *)

\* b'\n'
LF == 10

\* The characters texts are built from, as their UTF-8 encodings:
\* '\n', '\r', 'a', and the three-byte kana 'メ' (E3 83 A1).
CharSet == { <<10>>, <<13>>, <<97>>, <<227, 131, 161>> }

RECURSIVE Flatten(_)
Flatten(cs) == IF Len(cs) = 0 THEN <<>> ELSE Head(cs) \o Flatten(Tail(cs))

\* every valid UTF-8 text of at most MaxChars characters
Texts == { Flatten(cs) : cs \in UNION { [1..n -> CharSet] : n \in 0..MaxChars } }

\* every valid UTF-8 text of at most n characters
TextsUpTo(n) == { Flatten(cs) : cs \in UNION { [1..k -> CharSet] : k \in 0..n } }

\* u8::is_utf8_char_boundary is (b as i8) >= -0x40: b is no continuation byte
IsContinuationByte(b) == b >= 128 /\ b < 192

\* str::is_char_boundary(index)
is_char_boundary(text, index) ==
  IF index = 0 THEN TRUE
  ELSE IF index < Len(text) THEN ~IsContinuationByte(text[index + 1])
  ELSE index = Len(text)

\* str::get(a..b): None unless a <= b <= len and both ends are char boundaries
str_get(text, a, b) ==
  IF a <= b /\ b <= Len(text) /\ is_char_boundary(text, a) /\ is_char_boundary(text, b)
  THEN [kind |-> "Some", val |-> SubSeq(text, a + 1, b)]
  ELSE [kind |-> "None", val |-> <<>>]

\* str.chars().count(): the number of bytes that are no continuation bytes
RECURSIVE chars_count(_)
chars_count(s) ==
  IF Len(s) = 0 THEN 0
  ELSE (IF IsContinuationByte(Head(s)) THEN 0 ELSE 1) + chars_count(Tail(s))

\* ByteIndex + ByteOffset: (self.0 as i64 + rhs.0) as u32; every index of the
\* model is far below 2^32, where the cast changes nothing
ByteIndexAdd(index, offset) == index + offset

----------------------------------------------------------------------------
(* SourceID *)

SourceID_OFFSET == 1

\* SourceID::new(index): NonZeroU32(index + OFFSET)
SourceID_new(index) == index + SourceID_OFFSET

\* a get that returns the stored value
SourceID_get_stored(id) == id

\* SourceID::get(self)
SourceID_get(id) == id - SourceID_OFFSET

----------------------------------------------------------------------------
(* str slices and spans *)

\* a &str: `len` bytes of the buffer `buf` from byte `ptr` on
Str(buf, ptr, len) == [buf |-> buf, ptr |-> ptr, len |-> len]

\* the bytes of a &str
Bytes(s) == SubSeq(s.buf, s.ptr + 1, s.ptr + s.len)

\* nom's Slice<Range<usize>> for &str, &self[a..b]: panics unless
\* a <= b <= len and both ends are char boundaries
str_slice(s, a, b) ==
  IF str_get(Bytes(s), a, b).kind = "Some"
  THEN [kind |-> "Ok", val |-> Str(s.buf, s.ptr + a, b - a)]
  ELSE [kind |-> "Panic", val |-> s]

\* Span::with_start(start, fragment, source_id)
with_start(start, fragment, source_id) ==
  [start |-> start, fragment |-> fragment, source_id |-> source_id]

\* Span::from_str(text, source_id)
from_str(text, source_id) ==
  [start |-> 0, fragment |-> text, source_id |-> source_id]

\* Span::len
Span_len(span) == span.fragment.len

\* Span::start
Span_start(span) == span.start

\* Span::end
Span_end(span) == ByteIndexAdd(span.start, Span_len(span))

\* Span::fragment
Span_fragment(span) == Bytes(span.fragment)

\* impl_slice_range!(&str, Range<usize>, |_| false): Span::slice(a..b)
Span_slice(span, a, b) ==
  LET next_fragment == str_slice(span.fragment, a, b)
  IN  IF next_fragment.kind = "Panic" THEN [kind |-> "Panic", val |-> <<>>]
      ELSE LET consumed_len == next_fragment.val.ptr - span.fragment.ptr
           IN  IF consumed_len = 0
               THEN [kind |-> "Ok",
                     val  |-> [start |-> span.start, fragment |-> next_fragment.val,
                               source_id |-> span.source_id]]
               ELSE [kind |-> "Ok",
                     val  |-> [start |-> ByteIndexAdd(span.start, consumed_len),
                               fragment |-> next_fragment.val,
                               source_id |-> span.source_id]]

\* impl_slice_range!(&str, RangeFrom<usize>, |range| range.start == 0): Span::slice(a..)
Span_slice_from(span, a) ==
  IF a = 0 THEN [kind |-> "Ok", val |-> span]
  ELSE Span_slice(span, a, Span_len(span))

\* impl_slice_range!(&str, RangeTo<usize>, |_| false): Span::slice(..b)
Span_slice_to(span, b) == Span_slice(span, 0, b)

\* impl_slice_range!(&str, RangeFull, |_| true): Span::slice(..)
Span_slice_full(span) == [kind |-> "Ok", val |-> span]

\* The bytes a &str reads: those of its buffer and, where the slice leaves
\* the buffer (a slice built by slice::from_raw_parts beyond the allocation
\* is undefined behaviour), whatever byte `junk` the memory there holds.
Mem(s, junk) ==
  [k \in 1..s.len |->
     IF s.ptr + k >= 1 /\ s.ptr + k <= Len(s.buf) THEN s.buf[s.ptr + k] ELSE junk]

\* from_start_end with the SourceID of Span::new, SourceID::new(0)
from_start_end_first_source(self, start, end) ==
  with_start(start, Str(self.fragment.buf, self.fragment.ptr + (start - self.start), end),
             SourceID_new(0))

\* Span::from_start_end(&self, start, end): the pointer is moved by
\* start - self.start and the new slice is given the length `end`
from_start_end(self, start, end) ==
  LET orig_input_ptr == self.fragment.ptr + (start - self.start)
      new_slice      == Str(self.fragment.buf, orig_input_ptr, end)
  IN  with_start(start, new_slice, self.source_id)

Min(a, b) == IF a <= b THEN a ELSE b
Max(a, b) == IF a >= b THEN a ELSE b

\* Span::merge(self, other)
merge(self, other) ==
  LET start == Min(self.start, other.start)
      end   == Max(Span_end(self), Span_end(other))
  IN  from_start_end(self, start, end)

\* Span::disjoint(self, other)
disjoint(self, other) ==
  LET self_first == Span_end(self) < Span_end(other)
      first == IF self_first THEN self ELSE other
      last  == IF self_first THEN other ELSE self
  IN  Span_end(first) <= last.start

\* impl PartialEq for Span: the source ids, the starts and the fragments
\* (two &str are equal when their bytes are) are compared; junk_a and junk_b
\* are what is read where a fragment leaves its buffer
Span_eq(a, b, junk_a, junk_b) ==
  /\ a.source_id = b.source_id
  /\ a.start = b.start
  /\ Mem(a.fragment, junk_a) = Mem(b.fragment, junk_b)

\* memchr::memrchr(b, haystack): the last 0-based position of b, -1 for None
RECURSIVE memrchr(_, _)
memrchr(b, haystack) ==
  IF Len(haystack) = 0 THEN -1
  ELSE IF haystack[Len(haystack)] = b THEN Len(haystack) - 1
  ELSE memrchr(b, SubSeq(haystack, 1, Len(haystack) - 1))

\* Span::get_columns_and_bytes_before: the `start` bytes that precede the
\* fragment in its buffer are searched backwards for a line feed
get_columns_and_bytes_before(span) ==
  LET before_self == SubSeq(span.fragment.buf,
                            span.fragment.ptr - span.start + 1, span.fragment.ptr)
      pos         == memrchr(LF, before_self)
      column      == IF pos = -1 THEN span.start + 1 ELSE span.start - pos
  IN  [column |-> column,
       bytes  |-> SubSeq(before_self, span.start - (column - 1) + 1, Len(before_self))]

\* Span::get_column
get_column(span) == get_columns_and_bytes_before(span).column

\* bytecount::naive_num_chars: the bytes b with (b >> 6) != 0b10, one by one
RECURSIVE naive_num_chars(_)
naive_num_chars(utf8) ==
  IF Len(utf8) = 0 THEN 0
  ELSE (IF Head(utf8) \div 64 # 2 THEN 1 ELSE 0) + naive_num_chars(Tail(utf8))

\* the bytes of a machine word, the unit of the fast count
WordBytes == 8

\* the fast count's test of one byte of a word: ((!x >> 7) | (x >> 6)) & 1
is_leading_utf8_byte(b) ==
  LET not_b == 255 - b
      hi    == (not_b \div 128) % 2
      lo    == (b \div 64) % 2
  IN  IF hi = 1 \/ lo = 1 THEN 1 ELSE 0

RECURSIVE sum_leading(_)
sum_leading(word) ==
  IF Len(word) = 0 THEN 0
  ELSE is_leading_utf8_byte(Head(word)) + sum_leading(Tail(word))

\* bytecount::num_chars: whole words are counted a word at a time, the
\* bytes left over one by one
RECURSIVE num_chars(_)
num_chars(utf8) ==
  IF Len(utf8) >= WordBytes
  THEN sum_leading(SubSeq(utf8, 1, WordBytes))
         + num_chars(SubSeq(utf8, WordBytes + 1, Len(utf8)))
  ELSE naive_num_chars(utf8)

\* get_utf8_column as a 0-based count
get_utf8_column_zero_based(span) == num_chars(get_columns_and_bytes_before(span).bytes)

\* Span::get_utf8_column
get_utf8_column(span) == num_chars(get_columns_and_bytes_before(span).bytes) + 1

\* Span::naive_get_utf8_column
naive_get_utf8_column(span) ==
  naive_num_chars(get_columns_and_bytes_before(span).bytes) + 1

----------------------------------------------------------------------------
(* Source *)

\* source.match_indices('\n'): the 0-based positions i >= from of the byte b
RECURSIVE match_indices(_, _, _)
match_indices(source, b, from) ==
  IF from >= Len(source) THEN <<>>
  ELSE IF source[from + 1] = b
       THEN <<from>> \o match_indices(source, b, from + 1)
       ELSE match_indices(source, b, from + 1)

\* line_starts recording the position of each line feed, not the one after it
line_starts_at_newline(source) ==
  <<0>> \o match_indices(source, LF, 0)

\* fn line_starts(source): once(0).chain(match_indices('\n').map(|(i, _)| i + 1))
line_starts(source) ==
  LET m == match_indices(source, LF, 0)
  IN  <<0>> \o [k \in 1..Len(m) |-> m[k] + 1]

\* Source::new(name, source, source_id)
Source_new(name, source, source_id) ==
  [name |-> name, text |-> source, line_starts |-> line_starts(source),
   source_id |-> source_id]

\* an update that replaces the text and keeps the table of the old text
Source_update_text_only(self, text) == [self EXCEPT !.text = text]

\* Source::update(&mut self, text)
Source_update(self, text) ==
  [self EXCEPT !.text = text, !.line_starts = line_starts(text)]

\* a source_span with the id of the first source, SourceID::new(0)
source_span_first_source(self) == from_str(Str(self.text, 0, Len(self.text)), SourceID_new(0))

\* Source::source_span
source_span(self) == from_str(Str(self.text, 0, Len(self.text)), self.source_id)

\* last_line_index as the index of the last entry of line_starts
last_line_index_len_minus_one(self) == Len(self.line_starts) - 1

\* Source::last_line_index
last_line_index(self) == Len(self.line_starts)

\* Source::line_start
line_start(self, line) ==
  IF line < last_line_index(self)
  THEN [kind |-> "Ok", val |-> self.line_starts[line + 1]]
  ELSE IF line = last_line_index(self)
  THEN [kind |-> "Ok", val |-> Len(self.text)]
  ELSE [kind |-> "Err",
        val |-> [given |-> line, max |-> last_line_index(self)]]

\* [T]::binary_search(&x) on a sorted slice (0-based indices):
\* Ok(i) with s[i] = x, or Err(i), i the place where x would be inserted
RECURSIVE binary_search_loop(_, _, _, _)
binary_search_loop(s, x, base, size) ==
  IF size > 1
  THEN LET half == size \div 2
           mid  == base + half
       IN  binary_search_loop(s, x, IF s[mid + 1] > x THEN base ELSE mid, size - half)
  ELSE IF s[base + 1] = x THEN [kind |-> "Ok", val |-> base]
       ELSE [kind |-> "Err", val |-> base + (IF s[base + 1] < x THEN 1 ELSE 0)]

binary_search(s, x) ==
  IF Len(s) = 0 THEN [kind |-> "Err", val |-> 0]
  ELSE binary_search_loop(s, x, 0, Len(s))

\* line_index without the step back from the insertion point
line_index_no_step_back(self, byte_index) ==
  binary_search(self.line_starts, byte_index).val

\* line_index stepping back from an exact hit too
line_index_always_step_back(self, byte_index) ==
  binary_search(self.line_starts, byte_index).val - 1

\* Source::line_index
line_index(self, byte_index) ==
  LET found == binary_search(self.line_starts, byte_index)
  IN  IF found.kind = "Ok" THEN found.val ELSE found.val - 1

\* LocationError::OutOfBounds { given, span: self.source_span() }
OutOfBounds(self, given) ==
  [kind |-> "OutOfBounds", val |-> [given |-> given, span |-> source_span(self)]]

\* LocationError::InvalidCharBoundary { given }
InvalidCharBoundary(given) ==
  [kind |-> "InvalidCharBoundary", val |-> [given |-> given]]

\* the error of location with the comparison against the end turned round
location_error_inverted(self, given) ==
  IF given < Span_end(source_span(self))
  THEN OutOfBounds(self, given)
  ELSE InvalidCharBoundary(given)

\* the error of location without the char boundary case
location_error_only_bounds(self, given) == OutOfBounds(self, given)

\* Source::location, the error when text.get(line_start..byte_index) is None
location_error(self, given) ==
  IF given >= Span_end(source_span(self))
  THEN OutOfBounds(self, given)
  ELSE InvalidCharBoundary(given)

\* the column as the number of bytes of line_src
location_column_in_bytes(line_src) == Len(line_src)

\* Source::location, the column: line_src.chars().count()
location_column(line_src) == chars_count(line_src)

\* Source::location
location(self, byte_index) ==
  LET line             == line_index(self, byte_index)
      line_start_index == line_start(self, line)
  IN  IF line_start_index.kind = "Err" THEN OutOfBounds(self, byte_index)
      ELSE LET line_src == str_get(self.text, line_start_index.val, byte_index)
           IN  IF line_src.kind = "None"
               THEN location_error(self, byte_index)
               ELSE [kind |-> "Ok",
                     val  |-> [line |-> line, column |-> location_column(line_src.val)]]

\* a line_span whose error names the line it was asked for
line_span_given_requested(self, line) ==
  IF line < Len(self.line_starts)
  THEN [kind |-> "Ok",
        val  |-> with_start(0, str_slice(Str(self.text, 0, Len(self.text)),
                                         line_start(self, line).val,
                                         line_start(self, line + 1).val).val,
                            self.source_id)]
  ELSE [kind |-> "Err", val |-> [given |-> line, max |-> last_line_index(self)]]

\* Source::line_span
line_span(self, line) ==
  LET ls == line_start(self, line)
  IN  IF ls.kind = "Err" THEN ls
      ELSE LET next_line_start == line_start(self, line + 1)
           IN  IF next_line_start.kind = "Err" THEN next_line_start
               ELSE LET fragment == str_slice(Str(self.text, 0, Len(self.text)),
                                              ls.val, next_line_start.val)
                    IN  IF fragment.kind = "Panic" THEN [kind |-> "Panic", val |-> <<>>]
                        ELSE [kind |-> "Ok",
                              val  |-> with_start(0, fragment.val, self.source_id)]

----------------------------------------------------------------------------
(* Sources *)

\* Sources::get_unchecked(source_id): &self.sources[source_id.get()]
get_unchecked(srcs, source_id) == srcs[SourceID_get(source_id) + 1]

\* the ids Sources::add has returned so far
IssuedIds == { SourceID_new(i) : i \in 0..(Len(sources) - 1) }

\* the byte indices the queries are made with
ByteIndices(self) == 0..(Len(self.text) + MaxBeyond)

\* the line indices the queries are made with
LineIndices(self) == 0..(Len(self.line_starts) + MaxBeyond)

Result(op, id, arg, r) == [op |-> op, id |-> id, arg |-> arg, kind |-> r.kind, val |-> r.val]

\* Sources::update(source_id, source): get_unchecked_mut(source_id).update(source)
Update ==
  \E id \in IssuedIds, text \in Texts :
    /\ sources' = [sources EXCEPT ![SourceID_get(id) + 1] =
                     Source_update(get_unchecked(sources, id), text)]
    /\ result' = Result("update", id, text, [kind |-> "Ok", val |-> <<>>])
    /\ UNCHANGED <<spans, range>>

\* Sources::line_index(source_id, byte_index)
LineIndex ==
  \E id \in IssuedIds :
    \E byte_index \in ByteIndices(get_unchecked(sources, id)) :
      /\ result' = Result("line_index", id, byte_index,
                          [kind |-> "Ok",
                           val  |-> line_index(get_unchecked(sources, id), byte_index)])
      /\ UNCHANGED <<sources, spans, range>>

\* Source::line_start(line_index) of a registered source
LineStart ==
  \E id \in IssuedIds :
    \E line \in LineIndices(get_unchecked(sources, id)) :
      /\ result' = Result("line_start", id, line,
                          line_start(get_unchecked(sources, id), line))
      /\ UNCHANGED <<sources, spans, range>>

\* Sources::location(source_id, byte_index)
Location ==
  \E id \in IssuedIds :
    \E byte_index \in ByteIndices(get_unchecked(sources, id)) :
      /\ result' = Result("location", id, byte_index,
                          location(get_unchecked(sources, id), byte_index))
      /\ UNCHANGED <<sources, spans, range>>

\* Sources::line_span(source_id, line_index)
LineSpan ==
  \E id \in IssuedIds :
    \E line \in LineIndices(get_unchecked(sources, id)) :
      /\ result' = Result("line_span", id, line,
                          line_span(get_unchecked(sources, id), line))
      /\ UNCHANGED <<sources, spans, range>>

\* Sources::source_span(source_id), Span::slice(byte_index..) and the three
\* column computations of the span that results
Columns ==
  \E id \in IssuedIds :
    \E byte_index \in ByteIndices(get_unchecked(sources, id)) :
      LET span == Span_slice_from(source_span(get_unchecked(sources, id)), byte_index)
      IN  /\ result' = Result("columns", id, byte_index,
                         IF span.kind = "Panic" THEN span
                         ELSE [kind |-> "Ok",
                               val  |-> [span   |-> span.val,
                                         column |-> get_column(span.val),
                                         utf8   |-> get_utf8_column(span.val),
                                         naive  |-> naive_get_utf8_column(span.val)]])
          /\ UNCHANGED <<sources, spans, range>>

----------------------------------------------------------------------------
(* One source: the registry after Sources::new() and one add("test", text) *)

InitSource ==
  /\ \E text \in Texts : sources = << Source_new("test", text, SourceID_new(0)) >>
  /\ result = Result("add", SourceID_new(0), <<>>, [kind |-> "Ok", val |-> SourceID_new(0)])
  /\ spans = <<>>
  /\ range = <<0, 0>>

NextSource ==
  \/ Update
  \/ LineIndex
  \/ LineStart
  \/ Location
  \/ LineSpan
  \/ Columns

SpecSource == InitSource /\ [][NextSource]_vars

----------------------------------------------------------------------------
(* Spans of one or two sources, held by the client and combined *)

\* an add that puts the new source in front of the others
Sources_add_in_front(srcs, name, text) ==
  << Source_new(name, text, SourceID_new(Len(srcs))) >> \o srcs

\* Sources::add(name, text) on the registry srcs
Sources_add(srcs, name, text) ==
  Append(srcs, Source_new(name, text, SourceID_new(Len(srcs))))

\* the spans source_span(..).slice(a..b) gives without a panic
SourceSlices(self) ==
  { r.val : r \in { x \in { Span_slice(source_span(self), a, b) :
                               a \in 0..Len(self.text), b \in 0..Len(self.text) } :
                      x.kind = "Ok" } }

\* the spans line_span(line) gives
LineSpans(self) ==
  { r.val : r \in { x \in { line_span(self, line) : line \in 0..Len(self.line_starts) } :
                      x.kind = "Ok" } }

\* the spans a client gets from a source
ApiSpans(self) == SourceSlices(self) \cup LineSpans(self)

\* two byte values the memory beyond a buffer may hold
JunkBytes == {0, 97}

\* the merge that returns Result<Span, IncompatibleSourcesError>: spans of
\* two sources are refused, spans of one source are merged by Span::merge
try_merge(self, other) ==
  IF self.source_id # other.source_id
  THEN [kind |-> "Err", val |-> [lhs |-> self, rhs |-> other]]
  ELSE [kind |-> "Ok", val |-> merge(self, other)]

\* spans[1].merge(spans[2])
Merge ==
  /\ result' = Result("merge", spans[1].source_id, <<>>,
                      [kind |-> "Ok", val |-> merge(spans[1], spans[2])])
  /\ UNCHANGED <<sources, spans, range>>

\* spans[1].merge(spans[2]) of the Result-returning merge
TryMerge ==
  /\ result' = Result("try_merge", spans[1].source_id, <<>>, try_merge(spans[1], spans[2]))
  /\ UNCHANGED <<sources, spans, range>>

\* spans[1].disjoint(spans[2])
Disjoint ==
  /\ result' = Result("disjoint", spans[1].source_id, <<>>,
                      [kind |-> "Ok", val |-> disjoint(spans[1], spans[2])])
  /\ UNCHANGED <<sources, spans, range>>

\* spans[1] == spans[2]
Eq ==
  \E junk_a \in JunkBytes, junk_b \in JunkBytes :
    /\ result' = Result("eq", spans[1].source_id, <<>>,
                        [kind |-> "Ok", val |-> Span_eq(spans[1], spans[2], junk_a, junk_b)])
    /\ UNCHANGED <<sources, spans, range>>

\* the spans a client may hold of the sources of a registry
HeldSpans(srcs) == UNION { ApiSpans(srcs[k]) : k \in 1..Len(srcs) }

\* A client that holds two spans, of a registry that is one of:
\*  - one add of a text of at most MaxSpanChars characters;
\*  - two adds of texts of at most MaxOtherChars characters each;
\*  - one add and, after the first span was taken, one update, both of
\*    texts of at most MaxOtherChars characters.
InitSpan ==
  /\ \/ /\ \E text \in TextsUpTo(MaxSpanChars) : sources = Sources_add(<<>>, "test", text)
        /\ \E a \in HeldSpans(sources), b \in HeldSpans(sources) : spans = <<a, b>>
     \/ /\ \E text \in TextsUpTo(MaxOtherChars), other \in TextsUpTo(MaxOtherChars) :
             sources = Sources_add(Sources_add(<<>>, "test", text), "other", other)
        /\ \E a \in HeldSpans(sources), b \in HeldSpans(sources) : spans = <<a, b>>
     \/ \E old \in TextsUpTo(MaxOtherChars), text \in TextsUpTo(MaxOtherChars) :
          LET added == Sources_add(<<>>, "test", old)
          IN  /\ sources = [added EXCEPT ![1] = Source_update(added[1], text)]
              /\ \E a \in HeldSpans(added), b \in HeldSpans(sources) : spans = <<a, b>>
  /\ result = Result("hold", spans[2].source_id, <<>>, [kind |-> "Ok", val |-> <<>>])
  /\ range = <<0, 0>>

NextSpan ==
  \/ Merge
  \/ TryMerge
  \/ Disjoint
  \/ Eq

SpecSpan == InitSpan /\ [][NextSpan]_vars

----------------------------------------------------------------------------
(* A span of one source, held by the client and sliced *)

\* spans[1].slice(a..b)
Slice ==
  /\ result' = Result("slice", spans[1].source_id, range,
                      Span_slice(spans[1], range[1], range[2]))
  /\ UNCHANGED <<sources, spans, range>>

\* spans[1].slice(a..)
SliceFrom ==
  /\ result' = Result("slice", spans[1].source_id, <<range[1], Span_len(spans[1])>>,
                      Span_slice_from(spans[1], range[1]))
  /\ UNCHANGED <<sources, spans, range>>

\* spans[1].slice(..b)
SliceTo ==
  /\ result' = Result("slice", spans[1].source_id, <<0, range[2]>>,
                      Span_slice_to(spans[1], range[2]))
  /\ UNCHANGED <<sources, spans, range>>

\* spans[1].slice(..)
SliceFull ==
  /\ result' = Result("slice", spans[1].source_id, <<0, Span_len(spans[1])>>,
                      Span_slice_full(spans[1]))
  /\ UNCHANGED <<sources, spans, range>>

\* The registry after one add of a text of at most MaxSliceChars characters
\* and a client that holds the span of the source, or a slice of it, and a
\* range a..b whose ends reach up to MaxBeyond past the text.
InitSlice ==
  /\ \E text \in TextsUpTo(MaxSliceChars) : sources = Sources_add(<<>>, "test", text)
  /\ \E span \in SourceSlices(sources[1]) : spans = <<span>>
  /\ \E a \in ByteIndices(sources[1]), b \in ByteIndices(sources[1]) : range = <<a, b>>
  /\ result = Result("hold", spans[1].source_id, <<>>, [kind |-> "Ok", val |-> <<>>])

NextSlice ==
  \/ Slice
  \/ SliceFrom
  \/ SliceTo
  \/ SliceFull

SpecSlice == InitSlice /\ [][NextSlice]_vars

----------------------------------------------------------------------------
(* The registry: Sources::new(), then add, update and queries by SourceID, *)
(* made with the ids the registry issued and with an id it never issued    *)

\* the names and the texts the sources of the registry are given
RegNames == { "test", "other" }
RegTexts == { <<97>>, <<LF, 97>> }

\* the line indices and byte indices the registry is asked about: the lines
\* and the bytes of the longest text, and one past them
RegLineIndices == 0..Max(Len(line_starts(<<97>>)), Len(line_starts(<<LF, 97>>)))
RegByteIndices == 0..Max(Len(<<97>>), Len(<<LF, 97>>))

\* the ids the registry is asked about: those it issued and the next one,
\* which it has not issued
PresentedIds == { SourceID_new(i) : i \in 0..Len(sources) }

\* Vec::get(index) / the bounds check of Vec's index operator
in_bounds(srcs, source_id) == SourceID_get(source_id) < Len(srcs)

\* Sources::get(source_id)
Sources_get(srcs, source_id) ==
  IF in_bounds(srcs, source_id)
  THEN [kind |-> "Some", val |-> srcs[SourceID_get(source_id) + 1]]
  ELSE [kind |-> "None", val |-> <<>>]

\* an update that gives the text to every source of the registry
Sources_update_all(srcs, source_id, text) ==
  [k \in 1..Len(srcs) |-> Source_update(srcs[k], text)]

\* Sources::update(source_id, text): get_unchecked_mut(source_id).update(text)
Sources_update(srcs, source_id, text) ==
  [srcs EXCEPT ![SourceID_get(source_id) + 1] = Source_update(get_unchecked(srcs, source_id), text)]

\* Sources::source_span(source_id)
Sources_source_span(srcs, source_id) ==
  LET found == Sources_get(srcs, source_id)
  IN  IF found.kind = "Some"
      THEN [kind |-> "Ok", val |-> source_span(found.val)]
      ELSE [kind |-> "Err",
            val  |-> [given |-> source_id, max |-> SourceID_new(Len(srcs))]]

\* Sources::line_span(source_id, line_index): get_unchecked(source_id) indexes
\* the Vec, which panics when the index is out of bounds
Sources_line_span(srcs, source_id, line) ==
  IF in_bounds(srcs, source_id) THEN line_span(get_unchecked(srcs, source_id), line)
  ELSE [kind |-> "Panic", val |-> <<>>]

\* Sources::line_index(source_id, byte_index)
Sources_line_index(srcs, source_id, byte_index) ==
  IF in_bounds(srcs, source_id)
  THEN [kind |-> "Ok", val |-> line_index(get_unchecked(srcs, source_id), byte_index)]
  ELSE [kind |-> "Panic", val |-> <<>>]

\* Sources::location(source_id, byte_index)
Sources_location(srcs, source_id, byte_index) ==
  IF in_bounds(srcs, source_id) THEN location(get_unchecked(srcs, source_id), byte_index)
  ELSE [kind |-> "Panic", val |-> <<>>]

\* Sources::add(name, text)
Add ==
  /\ Len(sources) < MaxSources
  /\ \E name \in RegNames, text \in RegTexts :
       /\ sources' = Sources_add(sources, name, text)
       /\ result' = Result("add", SourceID_new(Len(sources)), <<name, text>>,
                           [kind |-> "Ok", val |-> SourceID_new(Len(sources))])
  /\ UNCHANGED <<spans, range>>

\* an update that also drops the spans the client holds
SourcesUpdate_invalidating ==
  \E id \in PresentedIds, text \in RegTexts :
    /\ in_bounds(sources, id)
    /\ sources' = Sources_update(sources, id, text)
    /\ result' = Result("update", id, text, [kind |-> "Ok", val |-> <<>>])
    /\ spans' = <<>>
    /\ UNCHANGED range

\* Sources::update(source_id, text)
SourcesUpdate ==
  \E id \in PresentedIds, text \in RegTexts :
    /\ IF in_bounds(sources, id)
       THEN /\ sources' = Sources_update(sources, id, text)
            /\ result' = Result("update", id, text, [kind |-> "Ok", val |-> <<>>])
       ELSE /\ sources' = sources
            /\ result' = Result("update", id, text, [kind |-> "Panic", val |-> <<>>])
    /\ UNCHANGED <<spans, range>>

\* Sources::get(source_id)
Get ==
  \E id \in PresentedIds :
    /\ result' = Result("get", id, <<>>, Sources_get(sources, id))
    /\ UNCHANGED <<sources, spans, range>>

\* Sources::source_span(source_id); the client keeps the span it is given
SourcesSourceSpan ==
  \E id \in PresentedIds :
    LET r == Sources_source_span(sources, id)
    IN  /\ result' = Result("source_span", id, <<>>, r)
        /\ spans' = IF r.kind = "Ok" THEN <<r.val>> ELSE spans
        /\ UNCHANGED <<sources, range>>

\* Sources::line_span(source_id, line_index); the client keeps the span
SourcesLineSpan ==
  \E id \in PresentedIds, line \in RegLineIndices :
    LET r == Sources_line_span(sources, id, line)
    IN  /\ result' = Result("line_span", id, line, r)
        /\ spans' = IF r.kind = "Ok" THEN <<r.val>> ELSE spans
        /\ UNCHANGED <<sources, range>>

\* Sources::line_index(source_id, byte_index)
SourcesLineIndex ==
  \E id \in PresentedIds, byte_index \in RegByteIndices :
    /\ result' = Result("line_index", id, byte_index,
                        Sources_line_index(sources, id, byte_index))
    /\ UNCHANGED <<sources, spans, range>>

\* Sources::location(source_id, byte_index)
SourcesLocation ==
  \E id \in PresentedIds, byte_index \in RegByteIndices :
    /\ result' = Result("location", id, byte_index,
                        Sources_location(sources, id, byte_index))
    /\ UNCHANGED <<sources, spans, range>>

\* Span::fragment() of the span the client holds
Fragment ==
  /\ Len(spans) > 0
  /\ result' = Result("fragment", spans[1].source_id, <<>>,
                      [kind |-> "Ok", val |-> Span_fragment(spans[1])])
  /\ UNCHANGED <<sources, spans, range>>

\* Sources::new(): no source, and a client that holds no span
InitRegistry ==
  /\ sources = <<>>
  /\ result = Result("new", SourceID_new(0), <<>>, [kind |-> "Ok", val |-> <<>>])
  /\ spans = <<>>
  /\ range = <<0, 0>>

NextRegistry ==
  \/ Add
  \/ SourcesUpdate
  \/ Get
  \/ SourcesSourceSpan
  \/ SourcesLineSpan
  \/ SourcesLineIndex
  \/ SourcesLocation
  \/ Fragment

SpecRegistry == InitRegistry /\ [][NextRegistry]_vars

----------------------------------------------------------------------------
(* What the claims speak of, stated without the operators above *)

\* the source the last operation was performed on
Cur == get_unchecked(sources, result.id)

EndsInNewline(text) == Len(text) > 0 /\ text[Len(text)] = LF

\* the 0-based positions of the line feeds of a text
LineFeeds(text) == { i \in 0..(Len(text) - 1) : text[i + 1] = LF }

\* a byte index the specification calls valid: inside the text, or one
\* past the end of a text that ends in a newline
ValidByteIndex(text, i) == i < Len(text) \/ (i = Len(text) /\ EndsInNewline(text))

\* the length of the UTF-8 sequence a leading byte announces
Utf8Width(b) == IF b < 128 THEN 1 ELSE IF b < 224 THEN 2 ELSE IF b < 240 THEN 3 ELSE 4

\* the 0-based positions where the scalar values of a text start, from `from` on
RECURSIVE ScalarStarts(_, _)
ScalarStarts(text, from) ==
  IF from >= Len(text) THEN {}
  ELSE {from} \cup ScalarStarts(text, from + Utf8Width(text[from + 1]))

\* i falls strictly inside a multi-byte sequence of the text
InsideScalar(text, i) == i < Len(text) /\ i \notin ScalarStarts(text, 0)

\* line L holds byte index i: line_start(L) <= i < line_start(L+1), or
\* i = line_start(L) for the final line
InLine(self, L, i) ==
  LET this == line_start(self, L)
      next == line_start(self, L + 1)
  IN  /\ this.kind = "Ok"
      /\ this.val <= i
      /\ \/ next.kind = "Ok" /\ i < next.val
         \/ L = Len(self.line_starts) - 1 /\ i = this.val

----------------------------------------------------------------------------
(* C1 *)

\* C1: after Source::new and after every update, line_starts[0] = 0, line_starts
\* is strictly increasing and its entries are exactly 0 and i+1 for every
\* position i of a line feed (so a final '\n' gives an entry text.len(), and
\* a '\r' starts no line).
C1_LineStarts ==
  \A k \in 1..Len(sources) :
    LET ls   == sources[k].line_starts
        text == sources[k].text
    IN  /\ ls[1] = 0
        /\ \A i \in 1..(Len(ls) - 1) : ls[i] < ls[i + 1]
        /\ { ls[i] : i \in 1..Len(ls) } = {0} \cup { i + 1 : i \in LineFeeds(text) }
        /\ EndsInNewline(text) => ls[Len(ls)] = Len(text)

\* an update to "a\r\n": the '\r' starts no line, the final '\n' does
C1_Witness ==
  /\ result.op = "update"
  /\ Cur.text = <<97, 13, 10>>
  /\ Cur.line_starts = <<0, 3>>

----------------------------------------------------------------------------
(* C2 *)

\* C2: for every valid byte index i, line_index(i) is the one line L with
\* line_start(L) <= i < line_start(L+1) (or i = line_start(L) for the final
\* synthetic line); so line_start(line_index(i)) <= i.
C2_LineIndexIsTheLine ==
  (result.op = "line_index" /\ ValidByteIndex(Cur.text, result.arg)) =>
    /\ InLine(Cur, result.val, result.arg)
    /\ \A L \in LineIndices(Cur) : InLine(Cur, L, result.arg) => L = result.val
    /\ line_start(Cur, result.val).kind = "Ok"
    /\ line_start(Cur, result.val).val <= result.arg

\* a byte strictly inside the second line of a text
C2_Witness ==
  /\ result.op = "line_index"
  /\ result.val = 1
  /\ line_start(Cur, 1).val < result.arg
  /\ result.arg < Len(Cur.text)

----------------------------------------------------------------------------
(* C3 *)

\* C3 as claimed: line_index returns an OutOfBounds error exactly when the byte
\* index exceeds the text length, or equals it while the text does not end in
\* a newline.
C3_Original ==
  result.op = "line_index" =>
    (result.kind = "OutOfBounds" <=> ~ValidByteIndex(Cur.text, result.arg))

\* C3 amended: line_index returns no error for any byte index: it returns the
\* line of the greatest line_starts entry <= byte_index, which for a byte
\* index at or past the end of the text is the last line.
C3_LineIndexNeverFails ==
  result.op = "line_index" =>
    LET ls == Cur.line_starts
        L  == result.val
    IN  /\ result.kind = "Ok"
        /\ L \in 0..(Len(ls) - 1)
        /\ ls[L + 1] <= result.arg
        /\ L + 1 < Len(ls) => result.arg < ls[L + 2]
        /\ result.arg >= Len(Cur.text) => L = Len(ls) - 1

\* a byte index past the end of a text of several lines gives the last line
C3_Witness ==
  /\ result.op = "line_index"
  /\ result.arg > Len(Cur.text)
  /\ Len(Cur.line_starts) > 1
  /\ result.kind = "Ok"
  /\ result.val = Len(Cur.line_starts) - 1

----------------------------------------------------------------------------
(* C4 *)

\* C4 as claimed: location(text.len()) is OutOfBounds when the text does not
\* end with a newline, and Ok with the synthetic trailing line and column 0
\* when it does.
C4_OnePastEnd ==
  (result.op = "location" /\ result.arg = Len(Cur.text)) =>
    IF EndsInNewline(Cur.text)
    THEN /\ result.kind = "Ok"
         /\ result.val.line = Len(Cur.line_starts) - 1
         /\ result.val.column = 0
    ELSE result.kind = "OutOfBounds"

----------------------------------------------------------------------------
(* C5 *)

\* C5: for every text, the empty one included, and every byte index greater
\* than text.len(), location returns OutOfBounds carrying the given index.
C5_PastTheEnd ==
  (result.op = "location" /\ result.arg > Len(Cur.text)) =>
    /\ result.kind = "OutOfBounds"
    /\ result.val.given = result.arg

\* the empty text and a nonzero index
C5_Witness ==
  /\ result.op = "location"
  /\ Cur.text = <<>>
  /\ result.arg = 2
  /\ result.kind = "OutOfBounds"

----------------------------------------------------------------------------
(* C6 *)

\* C6: location returns InvalidCharBoundary exactly when the byte index is
\* less than text.len() and falls strictly inside a multi-byte sequence.
C6_InvalidCharBoundary ==
  result.op = "location" =>
    (result.kind = "InvalidCharBoundary" <=> InsideScalar(Cur.text, result.arg))

\* the second byte of a kana that follows a newline
C6_Witness ==
  /\ result.op = "location"
  /\ result.kind = "InvalidCharBoundary"
  /\ result.arg = 2
  /\ Cur.text[1] = LF

----------------------------------------------------------------------------
(* C7 *)

\* C7: for every valid byte index i on a character boundary, location(i) is Ok,
\* its line is the line of i and its column is the number of scalar values
\* (not bytes) between the start of that line and i; in a text of 3-byte kana
\* byte index 6 has column number 3, and the byte-based column number is 7.
C7_ColumnCountsScalars ==
  /\ (/\ result.op = "location"
      /\ ValidByteIndex(Cur.text, result.arg)
      /\ ~InsideScalar(Cur.text, result.arg)) =>
       /\ result.kind = "Ok"
       /\ result.val.line = line_index(Cur, result.arg)
       /\ result.val.line = Cardinality({ i \in LineFeeds(Cur.text) : i < result.arg })
       /\ result.val.column =
            Cardinality({ c \in ScalarStarts(Cur.text, 0) :
                            /\ line_start(Cur, result.val.line).val <= c
                            /\ c < result.arg })
  /\ (/\ result.op = "columns"
      /\ result.arg = 6
      /\ Len(Cur.text) >= 6
      /\ SubSeq(Cur.text, 1, 6) = <<227, 131, 161, 227, 131, 161>>) =>
       /\ result.kind = "Ok"
       /\ result.val.utf8 = 3
       /\ result.val.column = 7

\* the third of three kana: column index 2, that is column number 3
C7_Witness ==
  /\ result.op = "location"
  /\ Cur.text = <<227, 131, 161, 227, 131, 161, 227, 131, 161>>
  /\ result.arg = 6
  /\ result.kind = "Ok"
  /\ result.val.column = 2

----------------------------------------------------------------------------
(* C8 *)

\* C8: at every span position the fast UTF-8 column (get_utf8_column) and the
\* naive one (naive_get_utf8_column) are the same.
C8_ColumnsAgree ==
  (result.op = "columns" /\ result.kind = "Ok") =>
    result.val.utf8 = result.val.naive

\* a position with more than a machine word of multi-byte text before it
C8_Witness ==
  /\ result.op = "columns"
  /\ result.kind = "Ok"
  /\ Len(get_columns_and_bytes_before(result.val.span).bytes) > WordBytes
  /\ result.val.utf8 = 4
  /\ result.val.column = 10

----------------------------------------------------------------------------
(* C9 *)

\* C9 as claimed: line_start(line_index) is Ok(line_starts[line_index]) exactly
\* when line_index <= line_starts.len() - 1, and otherwise the error
\* {given: line_index, max: line_starts.len() - 1}.
C9_Original ==
  result.op = "line_start" =>
    IF result.arg <= Len(Cur.line_starts) - 1
    THEN result.kind = "Ok" /\ result.val = Cur.line_starts[result.arg + 1]
    ELSE /\ result.kind = "Err"
         /\ result.val = [given |-> result.arg, max |-> Len(Cur.line_starts) - 1]

\* C9 amended: line_start(line_index) is Ok(line_starts[line_index]) when
\* line_index < line_starts.len(), Ok(text.len()) when line_index equals
\* line_starts.len(), and otherwise the error {given: line_index,
\* max: line_starts.len()}.
C9_LineStart ==
  result.op = "line_start" =>
    IF result.arg < Len(Cur.line_starts)
    THEN result.kind = "Ok" /\ result.val = Cur.line_starts[result.arg + 1]
    ELSE IF result.arg = Len(Cur.line_starts)
    THEN result.kind = "Ok" /\ result.val = Len(Cur.text)
    ELSE /\ result.kind = "Err"
         /\ result.val = [given |-> result.arg, max |-> Len(Cur.line_starts)]

\* the line index line_starts.len() of a text of two lines: Ok(text.len())
C9_Witness ==
  /\ result.op = "line_start"
  /\ Len(Cur.line_starts) = 2
  /\ result.arg = 2
  /\ result.kind = "Ok"
  /\ result.val = Len(Cur.text)
  /\ result.val > Cur.line_starts[2]

----------------------------------------------------------------------------
(* C10 *)

\* C10 as claimed: for every valid line L, line_span(L) starts at line_start(L),
\* ends at the start of the next line (text.len() for the last line) and its
\* fragment is the text of line L with its terminating newline.
C10_LineSpan ==
  (result.op = "line_span" /\ result.arg <= Len(Cur.line_starts) - 1) =>
    LET ls   == Cur.line_starts
        from == ls[result.arg + 1]
        to   == IF result.arg + 1 < Len(ls) THEN ls[result.arg + 2] ELSE Len(Cur.text)
    IN  /\ result.kind = "Ok"
        /\ Span_start(result.val) = from
        /\ Span_end(result.val) = to
        /\ Span_fragment(result.val) = SubSeq(Cur.text, from + 1, to)

----------------------------------------------------------------------------
(* C11 *)

\* the operands of the span operations
SameSource == spans[1].source_id = spans[2].source_id

\* C11: for any two spans a and b of one source (overlapping, nested,
\* adjacent or disjoint), merge(a, b) succeeds and returns the convex hull:
\* its start is the smaller of the two starts and its end the larger of the
\* two ends.
C11_MergeIsHull ==
  (result.op \in {"merge", "try_merge"} /\ SameSource) =>
    /\ result.kind = "Ok"
    /\ Span_start(result.val) = Min(Span_start(spans[1]), Span_start(spans[2]))
    /\ Span_end(result.val) = Max(Span_end(spans[1]), Span_end(spans[2]))

----------------------------------------------------------------------------
(* C12 *)

\* C12: for every span a, whatever its start, merge(a, a) == a.
C12_MergeIdentity ==
  (result.op = "merge" /\ spans[1] = spans[2]) =>
    \A junk_a \in JunkBytes, junk_b \in JunkBytes :
      Span_eq(result.val, spans[1], junk_a, junk_b)

----------------------------------------------------------------------------
(* C13 *)

\* C13: for every two spans a and b of one source, merge(a, b) == merge(b, a).
\* The two merged spans are fragments of one buffer, so what lies beyond it
\* is the same for both.
C13_MergeCommutes ==
  (result.op = "merge" /\ SameSource) =>
    \A junk \in JunkBytes :
      Span_eq(result.val, merge(spans[2], spans[1]), junk, junk)

----------------------------------------------------------------------------
(* C14 *)

----------------------------------------------------------------------------
(* C15 *)

\* C15: for spans a and b of one source, empty spans included, a.disjoint(b)
\* is true iff a.end() <= b.start() or b.end() <= a.start(); so touching end
\* points count as disjoint and a non-empty span is not disjoint from itself.
C15_Disjoint ==
  (result.op = "disjoint" /\ SameSource) =>
    /\ result.val <=> \/ Span_end(spans[1]) <= Span_start(spans[2])
                      \/ Span_end(spans[2]) <= Span_start(spans[1])
    /\ (spans[1] = spans[2] /\ Span_len(spans[1]) > 0) => ~result.val

----------------------------------------------------------------------------
(* C16 *)

\* C16: for spans of two different sources, disjoint returns true whatever
\* their byte ranges are.
C16_DisjointAcrossSources ==
  (result.op = "disjoint" /\ ~SameSource) => result.val

----------------------------------------------------------------------------
(* C17 *)

\* C17: for spans a and b of one source, empty spans and spans that share an
\* end point included, a.disjoint(b) == b.disjoint(a).
C17_DisjointSymmetric ==
  (result.op = "disjoint" /\ SameSource) =>
    (result.val <=> disjoint(spans[2], spans[1]))

----------------------------------------------------------------------------
(* C18 *)

\* the byte positions of the text a sliced span covers, the positions the
\* range a..b asks for, and the positions there are to give
Covered(span) == { i \in 0..(Span_end(span) - 1) : i >= Span_start(span) }
Requested(span, r) == { Span_start(span) + i : i \in { j \in 0..(r[2] - 1) : j >= r[1] } }

\* C18: slice never panics and always returns a span within [0, text.len()],
\* for any range, out-of-range and inverted ranges included: the span covers
\* the intersection of the requested range with the valid range, which may
\* be empty.
C18_SliceClips ==
  result.op = "slice" =>
    /\ result.kind = "Ok"
    /\ 0 <= Span_start(result.val)
    /\ Span_end(result.val) <= Len(Cur.text)
    /\ Covered(result.val) = Requested(spans[1], result.arg) \cap Covered(spans[1])

----------------------------------------------------------------------------
(* C19 *)

\* a range clipped to a text of n bytes
Clip(r, n) ==
  LET lo == Min(r[1], n)
  IN  [lo |-> lo, hi |-> Max(lo, Min(r[2], n))]

\* C19: for every range r, the fragment of source.slice(r) is text[clip(r)],
\* and the start and the length of the span are those of clip(r).
C19_SliceRoundTrip ==
  (result.op = "slice" /\ spans[1] = source_span(Cur)) =>
    LET c == Clip(result.arg, Len(Cur.text))
    IN  /\ result.kind = "Ok"
        /\ Span_fragment(result.val) = SubSeq(Cur.text, c.lo + 1, c.hi)
        /\ Span_start(result.val) = c.lo
        /\ Span_len(result.val) = c.hi - c.lo

----------------------------------------------------------------------------
(* C20 *)

\* C20: two spans are equal iff they have the same source id, the same start
\* and the same length, whatever add, update, slice, line_span or merge gave
\* them; the text they cover plays no role: spans of two sources of the
\* same text are unequal, and two spans of one source with the same start
\* and length are equal.
C20_SpanEquality ==
  result.op = "eq" =>
    (result.val <=> /\ spans[1].source_id = spans[2].source_id
                    /\ Span_start(spans[1]) = Span_start(spans[2])
                    /\ Span_len(spans[1]) = Span_len(spans[2]))

----------------------------------------------------------------------------
(* C21 *)

\* C21: the registry is append-only: in every step no source is removed or
\* moved; every id add has returned still resolves through get, and to the
\* very source it resolved to before unless the step is an update of that id
\* (so a source that is never updated keeps the name and the text it was
\* registered with).
C21_AppendOnly ==
  [][ /\ Len(sources') >= Len(sources)
      /\ \A k \in 1..Len(sources) :
           LET id == SourceID_new(k - 1)
           IN  /\ Sources_get(sources', id).kind = "Some"
               /\ \/ result'.op = "update" /\ result'.id = id
                  \/ Sources_get(sources', id).val = sources[k] ]_vars

\* a second source was added and the first id still resolves
C21_Witness ==
  /\ result.op = "add"
  /\ Len(sources) = 2
  /\ Sources_get(sources, SourceID_new(0)).kind = "Some"
  /\ Sources_get(sources, SourceID_new(0)).val.source_id = SourceID_new(0)

----------------------------------------------------------------------------
(* C22 *)

\* C22: line_span, line_index, location and source_span, called with an id
\* the registry never issued, return a NotASourceError that carries the id
\* presented: no panic, no answer for another source.
C22_NotASource ==
  (/\ result.op \in {"line_span", "line_index", "location", "source_span"}
   /\ ~in_bounds(sources, result.id)) =>
    /\ result.kind = "Err"
    /\ result.val.given = result.id

----------------------------------------------------------------------------
(* C23 *)

\* the outcome of an operation, as the operators give it
Outcome(r) == [kind |-> r.kind, val |-> r.val]

\* C23: after update(id, new_text) the text of the source is new_text and
\* its line_starts is the table Source::new computes for new_text, and every
\* later line_index, line_start, line_span and location on that id is the
\* answer for new_text: the one a source newly made of the text gives.
C23_UpdateRecomputes ==
  LET fresh == Source_new(Cur.name, Cur.text, Cur.source_id)
  IN  /\ Cur.line_starts = fresh.line_starts
      /\ result.op = "update" => Cur.text = result.arg
      /\ result.op = "line_index" => result.val = line_index(fresh, result.arg)
      /\ result.op = "line_start" => Outcome(result) = line_start(fresh, result.arg)
      /\ result.op = "line_span" => Outcome(result) = line_span(fresh, result.arg)
      /\ result.op = "location" => Outcome(result) = location(fresh, result.arg)

\* an update to the text "a", of one line
C23_Witness ==
  /\ result.op = "update"
  /\ result.arg = <<97>>
  /\ Cur.text = <<97>>
  /\ Cur.line_starts = <<0>>

----------------------------------------------------------------------------
(* C24 *)

\* the source of a span has not been updated since the span was made
NotUpdatedSince(span) == span.fragment.buf = get_unchecked(sources, span.source_id).text

\* 0 <= start, 0 <= length and start + length <= text.len()
SpanInvariants(span) ==
  /\ Span_start(span) >= 0
  /\ Span_len(span) >= 0
  /\ Span_start(span) + Span_len(span) <= Len(get_unchecked(sources, span.source_id).text)

\* C24: every span got through source_span, line_span, slice and merge, on
\* a source that has not been updated since, has start >= 0, length >= 0
\* and start + length <= text.len() of its source.
C24_SpanInvariants ==
  /\ \A k \in 1..Len(spans) : NotUpdatedSince(spans[k]) => SpanInvariants(spans[k])
  /\ (/\ result.op = "merge" /\ SameSource
      /\ NotUpdatedSince(spans[1]) /\ NotUpdatedSince(spans[2])) => SpanInvariants(result.val)

----------------------------------------------------------------------------
(* C25 *)

\* the spans slice gives of a span, for the ranges within it
SlicesOf(span) ==
  { r.val : r \in { x \in { Span_slice(span, a, b) :
                               a \in 0..Span_len(span), b \in 0..Span_len(span) } :
                      x.kind = "Ok" } }

\* C25: source_span and line_span of a source carry the id of that source;
\* a span made of a span s by slice, or by merge with s as the receiver,
\* carries the id of s.
C25_SourceIdentity ==
  /\ \A j \in 1..Len(sources) :
       /\ source_span(sources[j]).source_id = sources[j].source_id
       /\ \A span \in LineSpans(sources[j]) : span.source_id = sources[j].source_id
  /\ \A k \in 1..Len(spans) :
       \A span \in SlicesOf(spans[k]) : span.source_id = spans[k].source_id
  /\ result.op = "merge" => result.val.source_id = spans[1].source_id
  /\ (result.op = "try_merge" /\ result.kind = "Ok") => result.val.source_id = spans[1].source_id

\* the receiver is a span of the second source, the other of the first
C25_Witness ==
  /\ result.op = "merge"
  /\ Len(sources) = 2
  /\ spans[1].source_id = SourceID_new(1)
  /\ spans[2].source_id = SourceID_new(0)
  /\ Span_len(spans[1]) > 0
  /\ result.val.source_id = SourceID_new(1)

----------------------------------------------------------------------------
(* C26 *)

\* C26: update does no versioning and no invalidation of the spans handed
\* out: a span the client holds has the same start, length and source id
\* after the update as before, and an operation on it afterwards gives
\* what the span holds and reports nothing, also when the range of the span
\* exceeds the new text.
C26_NoInvalidation ==
  [][ /\ result'.op = "update" => spans' = spans
      /\ result'.op = "fragment" =>
           /\ spans' = spans
           /\ result'.kind = "Ok"
           /\ result'.val = SubSeq(spans[1].fragment.buf, spans[1].fragment.ptr + 1,
                                   spans[1].fragment.ptr + spans[1].fragment.len) ]_vars

\* the client holds the span of the text "\na"; the source now has the text
\* "a", and fragment() still gives "\na"
C26_Witness ==
  /\ result.op = "fragment"
  /\ Len(spans) = 1
  /\ Span_start(spans[1]) = 0 /\ Span_len(spans[1]) = 2
  /\ get_unchecked(sources, spans[1].source_id).text = <<97>>
  /\ result.val = <<LF, 97>>

----------------------------------------------------------------------------
(* C27 *)

\* C27: update(id, new_text) changes the text and the line_starts of the
\* source of id and nothing else: the number of sources, the name and the
\* SourceID of that source, and every other source stay as they were.
C27_UpdateFrame ==
  [][ result'.op = "update" =>
        /\ Len(sources') = Len(sources)
        /\ \A k \in 1..Len(sources) :
             /\ sources'[k].name = sources[k].name
             /\ sources'[k].source_id = sources[k].source_id
             /\ SourceID_new(k - 1) # result'.id => sources'[k] = sources[k] ]_vars

\* the second of two sources was updated to a text the first does not have
C27_Witness ==
  /\ result.op = "update"
  /\ result.kind = "Ok"
  /\ Len(sources) = 2
  /\ result.id = SourceID_new(1)
  /\ sources[2].text = <<97>>
  /\ sources[1].text = <<LF, 97>>
  /\ sources[1].name # sources[2].name

----------------------------------------------------------------------------
(* C28 *)

\* C28: the k-th add of a registry returns the SourceID whose get() is k - 1,
\* stored as the non-zero value k, so the ids of a registry are pairwise
\* distinct and increasing; SourceID::new(i).get() = i; and get(id) is Some
\* exactly for the ids with get() below the number of sources added.
C28_SourceIds ==
  /\ \A k \in 1..Len(sources) :
       /\ sources[k].source_id = k
       /\ SourceID_get(sources[k].source_id) = k - 1
  /\ \A i \in 0..MaxSources : SourceID_get(SourceID_new(i)) = i
  /\ result.op = "add" =>
       /\ result.val = sources[Len(sources)].source_id
       /\ SourceID_get(result.val) = Len(sources) - 1
  /\ result.op = "get" =>
       (result.kind = "Some" <=> SourceID_get(result.id) < Len(sources))

\* the second add returned the id stored as 2, whose get() is 1
C28_Witness ==
  /\ result.op = "add"
  /\ Len(sources) = 2
  /\ result.val = 2
  /\ SourceID_get(result.val) = 1

----------------------------------------------------------------------------
(* C29 *)

\* the fragments of line_span(from), line_span(from + 1), ... up to the last
\* line of the table, one after the other
RECURSIVE LineFragments(_, _)
LineFragments(self, from) ==
  IF from >= Len(self.line_starts) THEN <<>>
  ELSE Span_fragment(line_span(self, from).val) \o LineFragments(self, from + 1)

\* C29: the line spans partition the text: line_span succeeds for exactly
\* the lines 0 .. line_starts.len() - 1, the fragments of these spans, one
\* after the other, are the text, and the end of the span of line L is the
\* start of the span of line L + 1.
C29_LinesPartition ==
  result.op = "line_span" =>
    LET n == Len(Cur.line_starts)
    IN  /\ \A L \in 0..(n + MaxBeyond) : line_span(Cur, L).kind = "Ok" <=> L < n
        /\ LineFragments(Cur, 0) = Cur.text
        /\ \A L \in 0..(n - 2) :
             Span_end(line_span(Cur, L).val) = Span_start(line_span(Cur, L + 1).val)

----------------------------------------------------------------------------
(* C30 *)

\* C30 as claimed: when line_span(L) fails, the error has given = L and
\* max = the last valid line index, line_starts.len() - 1.
C30_Original ==
  (result.op = "line_span" /\ result.kind = "Err") =>
    result.val = [given |-> result.arg, max |-> Len(Cur.line_starts) - 1]

\* C30 amended: line_span(L) fails exactly when L >= line_starts.len(); the
\* error has max = line_starts.len(), and given = L + 1 when L equals
\* line_starts.len() (the start of line L is found, that of line L + 1 is
\* not) and given = L when L is larger.
C30_LineSpanError ==
  result.op = "line_span" =>
    /\ result.kind = "Err" <=> result.arg >= Len(Cur.line_starts)
    /\ result.kind = "Err" =>
         /\ result.val.max = Len(Cur.line_starts)
         /\ result.val.given = IF result.arg = Len(Cur.line_starts)
                               THEN result.arg + 1 ELSE result.arg

\* the text "a\na" has two line starts: line_span(2) fails with
\* {given: 3, max: 2}
C30_Witness ==
  /\ result.op = "line_span"
  /\ Cur.text = <<97, LF, 97>>
  /\ result.arg = 2
  /\ result.kind = "Err"
  /\ result.val = [given |-> 3, max |-> 2]

====
